---- MODULE Spec2Model ----
(***************************************************************************)
(* wyvern: the query criteria model (src/src/query.rs) and its SQL         *)
(* translation engine (src/src/adapters/sqlx.rs).                          *)
(*                                                                         *)
(* Text is modelled by TLA+ strings, one character per position.  A Rust   *)
(* i64 is modelled by the mathematical integer it holds, written as a sign *)
(* and a sequence of decimal digits, so that the whole 64-bit range        *)
(* (which exceeds TLC's native integers) is covered and overflow is what   *)
(* the Rust build makes of it.                                             *)
(***************************************************************************)
EXTENDS Integers, Sequences, FiniteSets, TLC

(***************************************************************************)
(* Natural numbers: decimal digits, least significant first, no leading    *)
(* zero; zero is the empty sequence.                                       *)
(***************************************************************************)
RECURSIVE Reverse(_)
Reverse(s) ==
    IF s = <<>> THEN <<>> ELSE Append(Reverse(Tail(s)), Head(s))

RECURSIVE Strip(_)
Strip(a) ==
    IF a = <<>> THEN <<>>
    ELSE IF a[Len(a)] = 0 THEN Strip(SubSeq(a, 1, Len(a) - 1))
    ELSE a

\* The natural number written with the decimal digits be, most significant first.
Dec(be) == Strip(Reverse(be))

RECURSIVE NatOf(_)
NatOf(n) == IF n = 0 THEN <<>> ELSE <<n % 10>> \o NatOf(n \div 10)

Digit(a, k) == IF k <= Len(a) THEN a[k] ELSE 0

RECURSIVE NatAddFrom(_, _, _, _)
NatAddFrom(a, b, k, carry) ==
    IF k > Len(a) /\ k > Len(b)
    THEN (IF carry = 0 THEN <<>> ELSE <<carry>>)
    ELSE LET s == Digit(a, k) + Digit(b, k) + carry
         IN  <<s % 10>> \o NatAddFrom(a, b, k + 1, s \div 10)

NatAdd(a, b) == NatAddFrom(a, b, 1, 0)

RECURSIVE NatCmpFrom(_, _, _)
NatCmpFrom(a, b, k) ==
    IF k = 0 THEN 0
    ELSE IF a[k] # b[k] THEN (IF a[k] < b[k] THEN -1 ELSE 1)
    ELSE NatCmpFrom(a, b, k - 1)

\* -1, 0 or 1 as a < b, a = b or a > b.
NatCmp(a, b) ==
    IF Len(a) # Len(b)
    THEN (IF Len(a) < Len(b) THEN -1 ELSE 1)
    ELSE NatCmpFrom(a, b, Len(a))

RECURSIVE NatSubFrom(_, _, _, _)
NatSubFrom(a, b, k, borrow) ==
    IF k > Len(a) THEN <<>>
    ELSE LET d == a[k] - Digit(b, k) - borrow
         IN  <<(d + 10) % 10>> \o NatSubFrom(a, b, k + 1, IF d < 0 THEN 1 ELSE 0)

\* a - b, for a >= b.
NatSub(a, b) == Strip(NatSubFrom(a, b, 1, 0))

\* The k-th column of the schoolbook product: the sum of a[i] * b[k + 1 - i].
RECURSIVE ColSum(_, _, _, _)
ColSum(a, b, k, i) ==
    IF i > Len(a) \/ i > k THEN 0
    ELSE (IF k + 1 - i <= Len(b) THEN a[i] * b[k + 1 - i] ELSE 0)
         + ColSum(a, b, k, i + 1)

RECURSIVE Carry(_, _, _)
Carry(cols, k, carry) ==
    IF k > Len(cols) THEN NatOf(carry)
    ELSE LET s == cols[k] + carry
         IN  <<s % 10>> \o Carry(cols, k + 1, s \div 10)

NatMul(a, b) ==
    IF a = <<>> \/ b = <<>> THEN <<>>
    ELSE Carry([k \in 1..(Len(a) + Len(b) - 1) |-> ColSum(a, b, k, 1)], 1, 0)

\* How many times b fits in cur (at most 9 times), and what is left.
RECURSIVE QuotDigit(_, _, _)
QuotDigit(cur, b, n) ==
    IF NatCmp(cur, b) < 0 THEN [q |-> n, r |-> cur]
    ELSE QuotDigit(NatSub(cur, b), b, n + 1)

\* Long division by b # 0, from the most significant digit a[k] down: q and r are
\* the quotient and the remainder of the digits already taken.
RECURSIVE DivLoop(_, _, _, _, _)
DivLoop(a, b, k, q, r) ==
    IF k = 0 THEN [q |-> q, r |-> r]
    ELSE LET d == QuotDigit(Strip(<<a[k]>> \o r), b, 0)
         IN  IF d.q = 0 /\ q = <<>>
             THEN DivLoop(a, b, k - 1, <<>>, d.r)
             ELSE DivLoop(a, b, k - 1, <<d.q>> \o q, d.r)

NatDivMod(a, b) == DivLoop(a, b, Len(a), <<>>, <<>>)

(***************************************************************************)
(* Integers: a sign and a magnitude; zero is not negative.                 *)
(***************************************************************************)
MkInt(neg, mag) == [neg |-> neg /\ mag # <<>>, mag |-> mag]

\* The integer n, for a small n.
I(n) == IF n < 0 THEN MkInt(TRUE, NatOf(-n)) ELSE MkInt(FALSE, NatOf(n))

IntNeg(x) == MkInt(~x.neg, x.mag)

IntAdd(x, y) ==
    IF x.neg = y.neg THEN MkInt(x.neg, NatAdd(x.mag, y.mag))
    ELSE IF NatCmp(x.mag, y.mag) >= 0 THEN MkInt(x.neg, NatSub(x.mag, y.mag))
    ELSE MkInt(y.neg, NatSub(y.mag, x.mag))

IntSub(x, y) == IntAdd(x, IntNeg(y))

IntMul(x, y) == MkInt(x.neg # y.neg, NatMul(x.mag, y.mag))

IntLess(x, y) ==
    IF x.neg # y.neg THEN x.neg
    ELSE IF x.neg THEN NatCmp(x.mag, y.mag) > 0
    ELSE NatCmp(x.mag, y.mag) < 0

IntLeq(x, y) == x = y \/ IntLess(x, y)

\* Quotient rounded toward zero, for y # 0.
IntDivTrunc(x, y) == MkInt(x.neg # y.neg, NatDivMod(x.mag, y.mag).q)

(***************************************************************************)
(* i64: the integers from I64Min to I64Max.  Rust's +, - and * panic on    *)
(* overflow when the build has overflow checks (the debug profile) and     *)
(* wrap modulo 2^64 when it has not (the release profile); / panics on a   *)
(* zero divisor and on I64Min / -1 in every build.                         *)
(***************************************************************************)
Two63 == Dec(<<9,2,2,3,3,7,2,0,3,6,8,5,4,7,7,5,8,0,8>>)
Two64 == Dec(<<1,8,4,4,6,7,4,4,0,7,3,7,0,9,5,5,1,6,1,6>>)

I64Max == MkInt(FALSE, NatSub(Two63, NatOf(1)))
I64Min == MkInt(TRUE, Two63)

InI64(x) == IntLeq(I64Min, x) /\ IntLeq(x, I64Max)

\* The i64 with the same low 64 bits as x (two's complement).
Wrap(x) ==
    LET r == NatDivMod(x.mag, Two64).r
        m == IF x.neg /\ r # <<>> THEN NatSub(Two64, r) ELSE r
    IN  IF NatCmp(m, Two63) >= 0 THEN MkInt(TRUE, NatSub(Two64, m))
        ELSE MkInt(FALSE, m)

Ok(v) == [panic |-> FALSE, val |-> v]
Panic == [panic |-> TRUE]

Overflowing(z, checks) ==
    IF InI64(z) THEN Ok(z) ELSE IF checks THEN Panic ELSE Ok(Wrap(z))

I64Add(x, y, checks) == Overflowing(IntAdd(x, y), checks)
I64Sub(x, y, checks) == Overflowing(IntSub(x, y), checks)
I64Mul(x, y, checks) == Overflowing(IntMul(x, y), checks)

I64Div(x, y) ==
    IF y = I(0) THEN Panic
    ELSE IF x = I64Min /\ y = I(-1) THEN Panic
    ELSE Ok(IntDivTrunc(x, y))

(***************************************************************************)
(* Text.                                                                   *)
(***************************************************************************)
DigitChar(d) == SubSeq("0123456789", d + 1, d + 1)

\* The digits k, k-1, .. 1 of a, as text.
RECURSIVE DigitsText(_, _)
DigitsText(a, k) ==
    IF k = 0 THEN "" ELSE DigitChar(a[k]) \o DigitsText(a, k - 1)

NatToString(a) == IF a = <<>> THEN "0" ELSE DigitsText(a, Len(a))

\* i64::to_string, and {} of an i64 in format!.
I64ToString(x) == (IF x.neg THEN "-" ELSE "") \o NatToString(x.mag)

\* f64::to_string of a float given by its shortest decimal expansion that reads
\* back as the same f64: a sign, the digits before the point (a natural number)
\* and the digits after it (most significant first, none when it is whole).
RECURSIVE FracText(_)
FracText(ds) == IF ds = <<>> THEN "" ELSE DigitChar(Head(ds)) \o FracText(Tail(ds))

FloatToString(f) ==
    IF f.class = "nan" THEN "NaN"
    ELSE IF f.class = "inf" THEN (IF f.neg THEN "-inf" ELSE "inf")
    ELSE (IF f.neg THEN "-" ELSE "") \o NatToString(f.whole)
         \o (IF f.frac = <<>> THEN "" ELSE "." \o FracText(f.frac))

\* str::replace: every non-overlapping match of the non-empty pattern from,
\* found left to right, replaced by to.
RECURSIVE Replace(_, _, _)
Replace(s, from, to) ==
    IF Len(s) < Len(from) THEN s
    ELSE IF SubSeq(s, 1, Len(from)) = from
    THEN to \o Replace(SubSeq(s, Len(from) + 1, Len(s)), from, to)
    ELSE Head(s) \o Replace(Tail(s), from, to)

\* [String]::join.
RECURSIVE Join(_, _)
Join(parts, sep) ==
    IF Len(parts) = 0 THEN ""
    ELSE IF Len(parts) = 1 THEN parts[1]
    ELSE parts[1] \o sep \o Join(Tail(parts), sep)

(***************************************************************************)
(* The data model (query.rs).                                              *)
(***************************************************************************)
Some(x) == <<x>>
None == <<>>

Operator ==
    {"Equal", "NotEqual", "GreaterThan", "GreaterThanOrEqual", "LessThan",
     "LessThanOrEqual", "Like", "In", "IsNull", "IsNotNull"}

SortDirection == {"Ascending", "Descending"}

\* ConditionValue.
StringValue(s) == [kind |-> "String", s |-> s]
IntegerValue(i) == [kind |-> "Integer", i |-> i]
FloatValue(f) == [kind |-> "Float", f |-> f]
BooleanValue(b) == [kind |-> "Boolean", b |-> b]
ListValue(values) == [kind |-> "List", values |-> values]
NullValue == [kind |-> "Null"]

Finite(neg, whole, frac) ==
    [class |-> "finite", neg |-> neg, whole |-> NatOf(whole), frac |-> frac]
NaN == [class |-> "nan", neg |-> FALSE]
Infinity(neg) == [class |-> "inf", neg |-> neg]

\* Condition::new and its sugar.
Condition_new(field, operator, value) ==
    [field |-> field, operator |-> operator, value |-> value]
Condition_eq(field, value) == Condition_new(field, "Equal", value)
Condition_ne(field, value) == Condition_new(field, "NotEqual", value)
Condition_gt(field, value) == Condition_new(field, "GreaterThan", value)
Condition_lt(field, value) == Condition_new(field, "LessThan", value)
Condition_in_list(field, values) == Condition_new(field, "In", ListValue(values))

SortOrder_new(field, direction) == [field |-> field, direction |-> direction]
SortOrder_asc(field) == SortOrder_new(field, "Ascending")
SortOrder_desc(field) == SortOrder_new(field, "Descending")

\* FilterCriteria::new and the builders.
FilterCriteria_new ==
    [conditions |-> <<>>, sort |-> <<>>, limit |-> None, offset |-> None]

with_condition(self, condition) ==
    [self EXCEPT !.conditions = Append(self.conditions, condition)]

with_sort(self, sort) == [self EXCEPT !.sort = Append(self.sort, sort)]

\* A with_limit that keeps a limit already set.
with_limit_once(self, limit) ==
    IF self.limit = None THEN [self EXCEPT !.limit = Some(limit)] ELSE self

with_limit(self, limit) == [self EXCEPT !.limit = Some(limit)]

with_offset(self, offset) == [self EXCEPT !.offset = Some(offset)]

(***************************************************************************)
(* The translation engine (adapters/sqlx.rs).                              *)
(***************************************************************************)
\* A format_value that quotes a String without doubling its quotes.
RECURSIVE format_value_unescaped(_)
format_value_unescaped(value) ==
    CASE value.kind = "String" -> "'" \o value.s \o "'"
      [] value.kind = "Integer" -> I64ToString(value.i)
      [] value.kind = "Float" -> FloatToString(value.f)
      [] value.kind = "Boolean" -> (IF value.b THEN "TRUE" ELSE "FALSE")
      [] value.kind = "Null" -> "NULL"
      [] value.kind = "List" ->
            "(" \o Join([i \in 1..Len(value.values) |->
                            format_value_unescaped(value.values[i])], ", ") \o ")"

RECURSIVE format_value(_)
format_value(value) ==
    CASE value.kind = "String" -> "'" \o Replace(value.s, "'", "''") \o "'"
      [] value.kind = "Integer" -> I64ToString(value.i)
      [] value.kind = "Float" -> FloatToString(value.f)
      [] value.kind = "Boolean" -> (IF value.b THEN "TRUE" ELSE "FALSE")
      [] value.kind = "Null" -> "NULL"
      [] value.kind = "List" ->
            "(" \o Join([i \in 1..Len(value.values) |->
                            format_value(value.values[i])], ", ") \o ")"

\* An In clause that treats a value that is no List as a list of one.
InClause_list_of_one(field, value) ==
    IF value.kind = "List"
    THEN field \o " IN ("
         \o Join([i \in 1..Len(value.values) |-> format_value(value.values[i])], ", ")
         \o ")"
    ELSE field \o " IN (" \o format_value(value) \o ")"

\* The Operator::In arm of the match in build_where_clause.
InClause(field, value) ==
    IF value.kind = "List"
    THEN field \o " IN ("
         \o Join([i \in 1..Len(value.values) |-> format_value(value.values[i])], ", ")
         \o ")"
    ELSE field \o " = " \o format_value(value)

\* A clause that renders Like as the case-sensitive LIKE.
ConditionClause_like(condition) ==
    LET field == condition.field
        value == condition.value
    IN  CASE condition.operator = "Equal" -> field \o " = " \o format_value(value)
          [] condition.operator = "NotEqual" -> field \o " != " \o format_value(value)
          [] condition.operator = "GreaterThan" -> field \o " > " \o format_value(value)
          [] condition.operator = "GreaterThanOrEqual" ->
                field \o " >= " \o format_value(value)
          [] condition.operator = "LessThan" -> field \o " < " \o format_value(value)
          [] condition.operator = "LessThanOrEqual" ->
                field \o " <= " \o format_value(value)
          [] condition.operator = "Like" -> field \o " LIKE " \o format_value(value)
          [] condition.operator = "IsNull" -> field \o " IS NULL"
          [] condition.operator = "IsNotNull" -> field \o " IS NOT NULL"
          [] condition.operator = "In" -> InClause(field, value)

\* The clause of one condition: the closure build_where_clause maps over the
\* conditions.
ConditionClause(condition) ==
    LET field == condition.field
        value == condition.value
    IN  CASE condition.operator = "Equal" -> field \o " = " \o format_value(value)
          [] condition.operator = "NotEqual" -> field \o " != " \o format_value(value)
          [] condition.operator = "GreaterThan" -> field \o " > " \o format_value(value)
          [] condition.operator = "GreaterThanOrEqual" ->
                field \o " >= " \o format_value(value)
          [] condition.operator = "LessThan" -> field \o " < " \o format_value(value)
          [] condition.operator = "LessThanOrEqual" ->
                field \o " <= " \o format_value(value)
          [] condition.operator = "Like" -> field \o " ILIKE " \o format_value(value)
          [] condition.operator = "IsNull" -> field \o " IS NULL"
          [] condition.operator = "IsNotNull" -> field \o " IS NOT NULL"
          [] condition.operator = "In" -> InClause(field, value)

\* A where clause whose conditions are joined as a list, not by AND.
build_where_clause_comma(criteria) ==
    Join([i \in 1..Len(criteria.conditions) |->
             ConditionClause(criteria.conditions[i])], ", ")

build_where_clause(criteria) ==
    IF Len(criteria.conditions) = 0 THEN ""
    ELSE Join([i \in 1..Len(criteria.conditions) |->
                  ConditionClause(criteria.conditions[i])], " AND ")

\* One ORDER BY term: the closure build_select_query maps over the sort orders.
SortClause(s) ==
    s.field \o " " \o (IF s.direction = "Ascending" THEN "ASC" ELSE "DESC")

\* A select query that appends OFFSET before LIMIT.
build_select_query_offset_first(table_name, criteria) ==
    LET q0 == "SELECT * FROM " \o table_name
        where_clause == build_where_clause(criteria)
        q1 == IF where_clause # "" THEN q0 \o " WHERE " \o where_clause ELSE q0
        q2 == IF Len(criteria.sort) # 0
              THEN q1 \o " ORDER BY "
                   \o Join([i \in 1..Len(criteria.sort) |->
                               SortClause(criteria.sort[i])], ", ")
              ELSE q1
        q3 == IF criteria.offset # None
              THEN q2 \o " OFFSET " \o I64ToString(criteria.offset[1])
              ELSE q2
        q4 == IF criteria.limit # None
              THEN q3 \o " LIMIT " \o I64ToString(criteria.limit[1])
              ELSE q3
    IN  q4

build_select_query(table_name, criteria) ==
    LET q0 == "SELECT * FROM " \o table_name
        where_clause == build_where_clause(criteria)
        q1 == IF where_clause # "" THEN q0 \o " WHERE " \o where_clause ELSE q0
        q2 == IF Len(criteria.sort) # 0
              THEN q1 \o " ORDER BY "
                   \o Join([i \in 1..Len(criteria.sort) |->
                               SortClause(criteria.sort[i])], ", ")
              ELSE q1
        q3 == IF criteria.limit # None
              THEN q2 \o " LIMIT " \o I64ToString(criteria.limit[1])
              ELSE q2
        q4 == IF criteria.offset # None
              THEN q3 \o " OFFSET " \o I64ToString(criteria.offset[1])
              ELSE q3
    IN  q4

\* A count query that keeps the LIMIT of the select query.
build_count_query_with_limit(table_name, criteria) ==
    LET q0 == "SELECT COUNT(*) FROM " \o table_name
        where_clause == build_where_clause(criteria)
        q1 == IF where_clause # "" THEN q0 \o " WHERE " \o where_clause ELSE q0
    IN  IF criteria.limit # None
        THEN q1 \o " LIMIT " \o I64ToString(criteria.limit[1])
        ELSE q1

\* A count query that is the select query with COUNT(*) for *.
build_count_query_of_select(table_name, criteria) ==
    LET q == build_select_query(table_name, criteria)
    IN  "SELECT COUNT(*)" \o SubSeq(q, Len("SELECT *") + 1, Len(q))

build_count_query(table_name, criteria) ==
    LET q0 == "SELECT COUNT(*) FROM " \o table_name
        where_clause == build_where_clause(criteria)
    IN  IF where_clause # "" THEN q0 \o " WHERE " \o where_clause ELSE q0

(***************************************************************************)
(* The pagination model (query.rs).                                        *)
(***************************************************************************)
Pagination_new(page, per_page) == [page |-> page, per_page |-> per_page]

Pagination_default == [page |-> I(1), per_page |-> I(20)]

\* (self.page - 1) * self.per_page
Pagination_offset(self, checks) ==
    LET d == I64Sub(self.page, I(1), checks)
    IN  IF d.panic THEN Panic ELSE I64Mul(d.val, self.per_page, checks)

Pagination_limit(self) == Ok(self.per_page)

\* (total_items + per_page - 1) / per_page
Page_new(items, page, per_page, total_items, checks) ==
    LET s == I64Add(total_items, per_page, checks)
        d == IF s.panic THEN Panic ELSE I64Sub(s.val, I(1), checks)
        q == IF d.panic THEN Panic ELSE I64Div(d.val, per_page)
    IN  IF q.panic THEN Panic
        ELSE Ok([items |-> items, page |-> page, per_page |-> per_page,
                 total_items |-> total_items, total_pages |-> q.val])

\* A has_next that counts the last page as having a next one.
has_next_inclusive(self) == IntLeq(self.page, self.total_pages)

has_next(self) == IntLess(self.page, self.total_pages)

has_previous(self) == IntLess(I(1), self.page)

next_page(self, checks) ==
    IF has_next(self)
    THEN LET n == I64Add(self.page, I(1), checks)
         IN  IF n.panic THEN Panic ELSE Ok(Some(n.val))
    ELSE Ok(None)

previous_page(self, checks) ==
    IF has_previous(self)
    THEN LET n == I64Sub(self.page, I(1), checks)
         IN  IF n.panic THEN Panic ELSE Ok(Some(n.val))
    ELSE Ok(None)

(***************************************************************************)
(* Bounds and input pools.                                                 *)
(***************************************************************************)
MaxConds == 2
MaxSorts == 2
MaxStrLen == 3
MaxListLen == 2
MaxSmall == 3
MaxCalls == 4
MaxWalk == 25

TableNames == {"llm_model_pricing", ""}

ConditionPool ==
    {Condition_eq("provider", StringValue("openai")),
     Condition_gt("price", IntegerValue(I(10))),
     Condition_new("valid_to", "IsNull", NullValue),
     Condition_new("BRAND_LIMIT", "Like",
                   StringValue("%AND WHERE LIMIT OFFSET ORDER BY%"))}

SortPool ==
    {SortOrder_asc("model_name"), SortOrder_desc("created_at"),
     SortOrder_asc("BRAND_LIMIT")}

LimitPool == {I(10), I64Min}
OffsetPool == {I(20)}
CountPool == LimitPool \cup OffsetPool

\* The sequences over S of length at most n.
RECURSIVE SeqsUpTo(_, _)
SeqsUpTo(S, n) ==
    IF n = 0 THEN {<<>>}
    ELSE LET shorter == SeqsUpTo(S, n - 1)
         IN  shorter \cup {Append(q, x) : q \in {r \in shorter : Len(r) = n - 1}, x \in S}

Alphabet == {"'", "a", "%", "\\"}

RECURSIVE Concat(_)
Concat(chars) == IF chars = <<>> THEN "" ELSE Head(chars) \o Concat(Tail(chars))

Strings == {Concat(q) : q \in SeqsUpTo(Alphabet, MaxStrLen)}

FieldNames == {"provider", ""}

ScalarPool ==
    {StringValue(s) : s \in Strings}
    \cup {StringValue("%gpt%"), StringValue("O'Reilly")}
    \cup {IntegerValue(i) : i \in {I(5), I(-1), I(0), I64Min, I64Max}}
    \cup {FloatValue(f) : f \in {Finite(FALSE, 1, <<5>>), Finite(TRUE, 10, <<>>),
                                 NaN, Infinity(TRUE)}}
    \cup {BooleanValue(TRUE), BooleanValue(FALSE), NullValue}

ElementPool ==
    {StringValue("openai"), StringValue("anthropic"), IntegerValue(I(5)),
     ListValue(<<>>), ListValue(<<StringValue("a'"), NullValue>>)}

ValuePool == ScalarPool \cup {ListValue(q) : q \in SeqsUpTo(ElementPool, MaxListLen)}

I64Pool ==
    {I(n) : n \in -1..MaxSmall} \cup {I(10), I(20), I(21)}
    \cup {I64Min, IntSub(I64Max, I(1)), I64Max}

ItemsPool == {<<>>, <<"row">>}

(***************************************************************************)
(* State.                                                                  *)
(***************************************************************************)
VARIABLES
    criteria,        \* the FilterCriteria being built
    first_call,      \* the first builder called on it, if any
    calls,           \* the builder calls of a recorded chain, in call order
    select_out,      \* the build_select_query call made on it, if any
    count_out,       \* the build_count_query call made on it, if any
    condition,       \* a single Condition
    value_out,       \* format_value of its value, once computed
    clause_out,      \* build_where_clause of the criteria holding it alone
    overflow_checks, \* whether the build panics on arithmetic overflow
    page,            \* a Page
    pagination,      \* a Pagination
    last             \* the last pagination-model call and its outcome

queryVars == <<criteria, first_call, calls, select_out, count_out>>
clauseVars == <<condition, value_out, clause_out>>
pageVars == <<overflow_checks, page, pagination, last>>
vars == <<queryVars, clauseVars, pageVars>>

QueryIdle ==
    /\ criteria = FilterCriteria_new
    /\ first_call = None
    /\ calls = <<>>
    /\ select_out = None
    /\ count_out = None

ClauseIdle ==
    /\ condition = None
    /\ value_out = None
    /\ clause_out = None

NoCall == [op |-> "none", panic |-> FALSE, args |-> <<>>, result |-> <<>>]

PageIdle ==
    /\ page = None
    /\ pagination = None
    /\ last = NoCall

(***************************************************************************)
(* Building a FilterCriteria and translating it.  The criteria is          *)
(* read-only once handed to a translation call.                            *)
(***************************************************************************)
Building == select_out = None /\ count_out = None

Called(name) == IF first_call = None THEN Some(name) ELSE first_call

WithCondition(c) ==
    /\ Building
    /\ Len(criteria.conditions) < MaxConds
    /\ criteria' = with_condition(criteria, c)
    /\ first_call' = Called("with_condition")
    /\ UNCHANGED <<calls, select_out, count_out, clauseVars, pageVars>>

WithSort(s) ==
    /\ Building
    /\ Len(criteria.sort) < MaxSorts
    /\ criteria' = with_sort(criteria, s)
    /\ first_call' = Called("with_sort")
    /\ UNCHANGED <<calls, select_out, count_out, clauseVars, pageVars>>

WithLimit(n) ==
    /\ Building
    /\ criteria' = with_limit(criteria, n)
    /\ first_call' = Called("with_limit")
    /\ UNCHANGED <<calls, select_out, count_out, clauseVars, pageVars>>

WithOffset(n) ==
    /\ Building
    /\ criteria' = with_offset(criteria, n)
    /\ first_call' = Called("with_offset")
    /\ UNCHANGED <<calls, select_out, count_out, clauseVars, pageVars>>

BuildSelect(t) ==
    /\ select_out = None
    /\ count_out # None => count_out[1].table_name = t
    /\ select_out' = Some([table_name |-> t, query |-> build_select_query(t, criteria)])
    /\ UNCHANGED <<criteria, first_call, calls, count_out, clauseVars, pageVars>>

BuildCount(t) ==
    /\ count_out = None
    /\ select_out # None => select_out[1].table_name = t
    /\ count_out' = Some([table_name |-> t, query |-> build_count_query(t, criteria)])
    /\ UNCHANGED <<criteria, first_call, calls, select_out, clauseVars, pageVars>>

Init ==
    /\ QueryIdle
    /\ ClauseIdle
    /\ PageIdle
    /\ overflow_checks = FALSE

Next ==
    \/ \E c \in ConditionPool : WithCondition(c)
    \/ \E s \in SortPool : WithSort(s)
    \/ \E n \in LimitPool : WithLimit(n)
    \/ \E n \in OffsetPool : WithOffset(n)
    \/ \E t \in TableNames : BuildSelect(t)
    \/ \E t \in TableNames : BuildCount(t)

Spec == Init /\ [][Next]_vars

(***************************************************************************)
(* A chain of builder calls on FilterCriteria::new(), each call recorded   *)
(* with its argument.                                                      *)
(***************************************************************************)
Chain(op, arg, result) ==
    /\ Len(calls) < MaxCalls
    /\ criteria' = result
    /\ calls' = Append(calls, [op |-> op, arg |-> arg])
    /\ UNCHANGED <<first_call, select_out, count_out, clauseVars, pageVars>>

ChainCondition(c) == Chain("with_condition", c, with_condition(criteria, c))
ChainSort(s) == Chain("with_sort", s, with_sort(criteria, s))
ChainLimit(n) == Chain("with_limit", n, with_limit(criteria, n))
ChainOffset(n) == Chain("with_offset", n, with_offset(criteria, n))

NextChain ==
    \/ \E c \in ConditionPool : ChainCondition(c)
    \/ \E s \in SortPool : ChainSort(s)
    \/ \E n \in CountPool : ChainLimit(n)
    \/ \E n \in CountPool : ChainOffset(n)

SpecChain == Init /\ [][NextChain]_vars

(***************************************************************************)
(* Rendering one condition.                                                *)
(***************************************************************************)
NewCondition(field, operator, value) ==
    /\ condition = None
    /\ condition' = Some(Condition_new(field, operator, value))
    /\ UNCHANGED <<value_out, clause_out, queryVars, pageVars>>

FormatValue ==
    /\ condition # None
    /\ value_out = None
    /\ value_out' = Some(format_value(condition[1].value))
    /\ UNCHANGED <<condition, clause_out, queryVars, pageVars>>

BuildWhereClause ==
    /\ condition # None
    /\ clause_out = None
    /\ clause_out' =
          Some(build_where_clause(with_condition(FilterCriteria_new, condition[1])))
    /\ UNCHANGED <<condition, value_out, queryVars, pageVars>>

NextClause ==
    \/ \E f \in FieldNames, o \in Operator, v \in ValuePool : NewCondition(f, o, v)
    \/ FormatValue
    \/ BuildWhereClause

SpecClause == Init /\ [][NextClause]_vars

(***************************************************************************)
(* The pagination model: one Page or one Pagination is constructed, then   *)
(* queried.  A panic ends the run.                                         *)
(***************************************************************************)
Call(op, args, r) ==
    [op |-> op, panic |-> r.panic, args |-> args,
     result |-> IF r.panic THEN <<>> ELSE <<r.val>>]

PageNew(items, p, per_page, total_items) ==
    /\ last = NoCall
    /\ LET r == Page_new(items, p, per_page, total_items, overflow_checks)
       IN  /\ page' = IF r.panic THEN None ELSE Some(r.val)
           /\ last' = Call("Page::new", <<items, p, per_page, total_items>>, r)
    /\ UNCHANGED <<overflow_checks, pagination, queryVars, clauseVars>>

PageQuery(op, r) ==
    /\ page # None
    /\ ~last.panic
    /\ last' = Call(op, <<>>, r)
    /\ UNCHANGED <<overflow_checks, page, pagination, queryVars, clauseVars>>

HasNext == PageQuery("has_next", Ok(has_next(page[1])))
HasPrevious == PageQuery("has_previous", Ok(has_previous(page[1])))
NextPage == PageQuery("next_page", next_page(page[1], overflow_checks))
PreviousPage == PageQuery("previous_page", previous_page(page[1], overflow_checks))

PaginationNew(p, per_page) ==
    /\ last = NoCall
    /\ pagination' = Some(Pagination_new(p, per_page))
    /\ last' = Call("Pagination::new", <<p, per_page>>, Ok(Pagination_new(p, per_page)))
    /\ UNCHANGED <<overflow_checks, page, queryVars, clauseVars>>

PaginationDefault ==
    /\ last = NoCall
    /\ pagination' = Some(Pagination_default)
    /\ last' = Call("Pagination::default", <<>>, Ok(Pagination_default))
    /\ UNCHANGED <<overflow_checks, page, queryVars, clauseVars>>

PaginationQuery(op, r) ==
    /\ pagination # None
    /\ ~last.panic
    /\ last' = Call(op, <<>>, r)
    /\ UNCHANGED <<overflow_checks, page, pagination, queryVars, clauseVars>>

Offset == PaginationQuery("offset", Pagination_offset(pagination[1], overflow_checks))
Limit == PaginationQuery("limit", Pagination_limit(pagination[1]))

InitPage ==
    /\ QueryIdle
    /\ ClauseIdle
    /\ PageIdle
    /\ overflow_checks \in BOOLEAN

NextPageModel ==
    \/ \E items \in ItemsPool, p \in I64Pool, per_page \in I64Pool, t \in I64Pool :
          PageNew(items, p, per_page, t)
    \/ HasNext
    \/ HasPrevious
    \/ NextPage
    \/ PreviousPage
    \/ \E p \in I64Pool, per_page \in I64Pool : PaginationNew(p, per_page)
    \/ PaginationDefault
    \/ Offset
    \/ Limit

SpecPage == InitPage /\ [][NextPageModel]_vars

(***************************************************************************)
(* Walking the pages: a Page is constructed, then the caller follows       *)
(* next_page (from page 1) or previous_page (from a page p >= 1),          *)
(* rebuilding the Page at the page returned with the same items, per_page  *)
(* and total_items, until the answer is None.  Walks are followed up to    *)
(* page MaxWalk.                                                           *)
(***************************************************************************)
Follow(op, r) ==
    /\ page # None
    /\ ~last.panic
    /\ \/ last.op = "Page::new"
       \/ last.op = op /\ last.result # <<None>>
    /\ IntLeq(page[1].page, I(MaxWalk))
    /\ \E answer \in {r} :
          IF answer.panic \/ answer.val = None
          THEN /\ page' = page
               /\ last' = Call(op, <<>>, answer)
          ELSE \E args \in {<<page[1].items, answer.val[1],
                                page[1].per_page, page[1].total_items>>} :
               \E built \in {Page_new(args[1], args[2], args[3], args[4],
                                       overflow_checks)} :
                  /\ page' = IF built.panic THEN None ELSE Some(built.val)
                  /\ last' = IF built.panic THEN Call("Page::new", args, built)
                                            ELSE Call(op, <<>>, answer)
    /\ UNCHANGED <<overflow_checks, pagination, queryVars, clauseVars>>

FollowNext ==
    /\ page # None
    /\ last.op = "Page::new" => page[1].page = I(1)
    /\ Follow("next_page", next_page(page[1], overflow_checks))

FollowPrevious ==
    /\ page # None
    /\ last.op = "Page::new" => IntLeq(I(1), page[1].page)
    /\ Follow("previous_page", previous_page(page[1], overflow_checks))

NextWalk ==
    \/ \E items \in ItemsPool, p \in I64Pool, per_page \in I64Pool, t \in I64Pool :
          PageNew(items, p, per_page, t)
    \/ FollowNext
    \/ FollowPrevious

SpecWalk == InitPage /\ [][NextWalk]_vars

\* Whether a step of a walk can be taken: the guards of FollowNext and
\* FollowPrevious.
CanWalk ==
    /\ page # None
    /\ ~last.panic
    /\ IntLeq(page[1].page, I(MaxWalk))
    /\ \/ last.op = "Page::new" /\ IntLeq(I(1), page[1].page)
       \/ last.op \in {"next_page", "previous_page"} /\ last.result # <<None>>

\* The caller's loop keeps running while it can: weak fairness of the walk's
\* steps, WF_vars(FollowNext \/ FollowPrevious), with CanWalk for ENABLED.
SpecWalkFair ==
    SpecWalk /\ ([]<>(~CanWalk) \/ []<><<FollowNext \/ FollowPrevious>>_vars)

(***************************************************************************)
(* Properties.                                                             *)
(***************************************************************************)
\* Whether text s holds pat, and how many times (occurrences of a pattern that
\* cannot overlap itself, such as AND, are counted as str::matches counts them).
Occurrences(s, pat) ==
    {i \in 1..(Len(s) - Len(pat) + 1) : SubSeq(s, i, i + Len(pat) - 1) = pat}
Contains(s, pat) == Occurrences(s, pat) # {}
Count(s, pat) == Cardinality(Occurrences(s, pat))

\* parts[1], sep, parts[2], sep, .. parts[k].
RECURSIVE Joined(_, _, _)
Joined(parts, sep, k) ==
    IF k = 0 THEN ""
    ELSE IF k = 1 THEN parts[1]
    ELSE Joined(parts, sep, k - 1) \o sep \o parts[k]

WhereText(c) ==
    Joined([i \in 1..Len(c.conditions) |-> ConditionClause(c.conditions[i])],
           " AND ", Len(c.conditions))

OrderText(c) ==
    Joined([i \in 1..Len(c.sort) |->
               c.sort[i].field
               \o (IF c.sort[i].direction = "Ascending" THEN " ASC" ELSE " DESC")],
           ", ", Len(c.sort))

\* C1: build_select_query returns SELECT * FROM <table>, then WHERE and the
\* clauses joined by AND only when there are conditions, then ORDER BY and the
\* terms joined by commas only when there are sort orders, then LIMIT only when
\* a limit is present, then OFFSET only when an offset is present: in this
\* order whatever the order of the builder calls, the terms in the order added.
C1_SelectShape ==
    select_out # None =>
        select_out[1].query =
            "SELECT * FROM " \o select_out[1].table_name
            \o (IF criteria.conditions # <<>>
                THEN " WHERE " \o WhereText(criteria) ELSE "")
            \o (IF criteria.sort # <<>>
                THEN " ORDER BY " \o OrderText(criteria) ELSE "")
            \o (IF criteria.limit # None
                THEN " LIMIT " \o I64ToString(criteria.limit[1]) ELSE "")
            \o (IF criteria.offset # None
                THEN " OFFSET " \o I64ToString(criteria.offset[1]) ELSE "")

\* A select query with all four pieces, built on a criteria whose offset was
\* set first and whose conditions and sort orders were added in a known order.
C1_Witness ==
    /\ select_out # None
    /\ first_call = Some("with_offset")
    /\ criteria.conditions = <<Condition_eq("provider", StringValue("openai")),
                               Condition_gt("price", IntegerValue(I(10)))>>
    /\ criteria.sort = <<SortOrder_asc("model_name"), SortOrder_desc("created_at")>>
    /\ criteria.limit = Some(I(10))
    /\ select_out[1].query =
          "SELECT * FROM llm_model_pricing WHERE provider = 'openai' AND price > 10 "
          \o "ORDER BY model_name ASC, created_at DESC LIMIT 10 OFFSET 20"

RECURSIVE ValueHolds(_, _)
ValueHolds(value, pat) ==
    CASE value.kind = "String" -> Contains(value.s, pat)
      [] value.kind = "List" ->
            \E i \in 1..Len(value.values) : ValueHolds(value.values[i], pat)
      [] OTHER -> FALSE

\* Whether the table name, a condition's field name or String value, or a sort
\* field name holds pat.
CallerTextHolds(t, c, pat) ==
    \/ Contains(t, pat)
    \/ \E i \in 1..Len(c.conditions) :
          \/ Contains(c.conditions[i].field, pat)
          \/ ValueHolds(c.conditions[i].value, pat)
    \/ \E i \in 1..Len(c.sort) : Contains(c.sort[i].field, pat)

WhereAndCount(q, c) ==
    /\ Contains(q, "WHERE") <=> c.conditions # <<>>
    /\ Count(q, "AND") = (IF Len(c.conditions) >= 1 THEN Len(c.conditions) - 1 ELSE 0)

\* C2 (as stated): the output of build_select_query contains WHERE iff
\* conditions is non-empty, and conditions.len() - 1 occurrences of AND (zero
\* for no condition), whatever the field names and values are.
C2_WhereAndCount ==
    select_out # None => WhereAndCount(select_out[1].query, criteria)

\* C2 (amended): the same, for the criteria and table names in which no table
\* name, condition field name, String value or sort field name holds the text
\* WHERE or AND.
C2_WhereAndCountOfPlainText ==
    (/\ select_out # None
     /\ ~CallerTextHolds(select_out[1].table_name, criteria, "WHERE")
     /\ ~CallerTextHolds(select_out[1].table_name, criteria, "AND"))
    => WhereAndCount(select_out[1].query, criteria)

\* A select query of two conditions of plain text, with its one AND.
C2_Witness ==
    /\ select_out # None
    /\ Len(criteria.conditions) = 2
    /\ ~CallerTextHolds(select_out[1].table_name, criteria, "WHERE")
    /\ ~CallerTextHolds(select_out[1].table_name, criteria, "AND")
    /\ Count(select_out[1].query, "AND") = 1
    /\ Contains(select_out[1].query, " WHERE ")

PagingText == {"ORDER BY", "LIMIT", "OFFSET"}

\* C4 (as stated): the output of build_count_query never contains ORDER BY,
\* LIMIT or OFFSET, whatever the criteria holds (its condition field names and
\* values included).
C4_CountHasNoPagingText ==
    count_out # None => \A pat \in PagingText : ~Contains(count_out[1].query, pat)

\* C4 (amended): the output of build_count_query contains none of ORDER BY,
\* LIMIT and OFFSET unless the table name or a condition's field name or String
\* value holds it; the sort entries, the limit and the offset never add one.
C4_CountPagingTextIsCallerText ==
    count_out # None =>
        \A pat \in PagingText :
            Contains(count_out[1].query, pat) =>
                CallerTextHolds(count_out[1].table_name,
                                [criteria EXCEPT !.sort = <<>>], pat)

\* A count query without paging text, of a criteria that has conditions, a sort
\* order on a field named BRAND_LIMIT, a limit and an offset.
C4_Witness ==
    /\ count_out # None
    /\ criteria.conditions # <<>>
    /\ \E i \in 1..Len(criteria.sort) : criteria.sort[i].field = "BRAND_LIMIT"
    /\ criteria.limit # None
    /\ criteria.offset # None
    /\ \A pat \in PagingText : ~Contains(count_out[1].query, pat)

StartsWith(s, prefix) == Len(s) >= Len(prefix) /\ SubSeq(s, 1, Len(prefix)) = prefix
After(s, prefix) == SubSeq(s, Len(prefix) + 1, Len(s))

\* C5: build_count_query(table, c) is build_select_query(table, c') with the
\* prefix SELECT * FROM replaced by SELECT COUNT(*) FROM, where c' is c with
\* sort emptied and limit and offset removed; so the count query does not depend
\* on sort, limit and offset, and the select query of the same criteria carries
\* the same WHERE text.
C5_CountIsSelectWithoutPaging ==
    count_out # None =>
        LET t == count_out[1].table_name
            stripped == [criteria EXCEPT !.sort = <<>>, !.limit = None, !.offset = None]
            select == build_select_query(t, stripped)
        IN  /\ StartsWith(select, "SELECT * FROM")
            /\ count_out[1].query = "SELECT COUNT(*) FROM" \o After(select, "SELECT * FROM")
            /\ count_out[1].query = build_count_query(t, stripped)
            /\ select_out # None =>
                  StartsWith(After(select_out[1].query, "SELECT * FROM"),
                             After(count_out[1].query, "SELECT COUNT(*) FROM"))

\* The count and select queries of one criteria that has a condition, a sort
\* order, a limit and an offset.
C5_Witness ==
    /\ count_out # None
    /\ select_out # None
    /\ criteria.conditions # <<>>
    /\ criteria.sort # <<>>
    /\ criteria.limit # None
    /\ criteria.offset # None
    /\ Len(select_out[1].query) > Len(count_out[1].query)

Quote == "'"

\* Whether out is s with every single quote doubled and nothing else changed.
RECURSIVE QuotesDoubled(_, _)
QuotesDoubled(s, out) ==
    IF s = "" THEN out = ""
    ELSE IF Head(s) = Quote
    THEN StartsWith(out, "''") /\ QuotesDoubled(Tail(s), After(out, "''"))
    ELSE out # "" /\ Head(out) = Head(s) /\ QuotesDoubled(Tail(s), Tail(out))

\* C3: format_value(String(s)) starts and ends with a single quote, holds s
\* between them with every single quote doubled and no other character altered,
\* dropped or reordered, and has 2 * (single quotes of s) + 2 single quotes.
C3_StringIsQuotedAndEscaped ==
    (value_out # None /\ condition[1].value.kind = "String") =>
        LET s == condition[1].value.s
            out == value_out[1]
        IN  /\ Len(out) >= 2
            /\ SubSeq(out, 1, 1) = Quote
            /\ SubSeq(out, Len(out), Len(out)) = Quote
            /\ QuotesDoubled(s, SubSeq(out, 2, Len(out) - 1))
            /\ Count(out, Quote) = 2 * Count(s, Quote) + 2

\* O'Reilly, formatted.
C3_Witness ==
    /\ value_out = Some("'O''Reilly'")
    /\ condition[1].value = StringValue("O'Reilly")

FormattedValues(values) == [i \in 1..Len(values) |-> format_value(values[i])]

\* C6: In with a List renders field IN (v1, v2, ...), each vi the format_value
\* of the i-th element, joined by a comma and a space (IN () for the empty list,
\* a List element as its own parenthesized list); In with any other value
\* renders field = format_value(value).
C6_InClause ==
    (clause_out # None /\ condition[1].operator = "In") =>
        LET field == condition[1].field
            value == condition[1].value
        IN  IF value.kind = "List"
            THEN /\ clause_out[1] =
                       field \o " IN ("
                       \o Joined(FormattedValues(value.values), ", ", Len(value.values))
                       \o ")"
                 /\ value.values = <<>> => clause_out[1] = field \o " IN ()"
                 /\ \A i \in 1..Len(value.values) :
                       value.values[i].kind = "List" =>
                           LET inner == value.values[i].values
                           IN  FormattedValues(value.values)[i] =
                                  "(" \o Joined(FormattedValues(inner), ", ", Len(inner))
                                  \o ")"
            ELSE clause_out[1] = field \o " = " \o format_value(value)

\* The In clause of a list of two strings.
C6_Witness ==
    /\ clause_out = Some("provider IN ('openai', 'anthropic')")
    /\ condition[1].operator = "In"

\* The In clause of an integer.
C6_ScalarReached ==
    /\ clause_out = Some("provider = 5")
    /\ condition[1].operator = "In"

OperatorSymbol ==
    [Equal |-> "=", NotEqual |-> "!=", GreaterThan |-> ">", GreaterThanOrEqual |-> ">=",
     LessThan |-> "<", LessThanOrEqual |-> "<=", Like |-> "ILIKE"]

\* C7: Equal, NotEqual, GreaterThan, GreaterThanOrEqual, LessThan,
\* LessThanOrEqual and Like render field, the operator's symbol (=, !=, >, >=, <,
\* <=, ILIKE) and format_value(value), a space between them; IsNull and IsNotNull
\* render field IS NULL and field IS NOT NULL whatever the value is.
C7_OperatorClause ==
    clause_out # None =>
        LET field == condition[1].field
            operator == condition[1].operator
        IN  /\ operator \in DOMAIN OperatorSymbol =>
                  clause_out[1] = field \o " " \o OperatorSymbol[operator] \o " "
                                  \o format_value(condition[1].value)
            /\ operator = "IsNull" => clause_out[1] = field \o " IS NULL"
            /\ operator = "IsNotNull" => clause_out[1] = field \o " IS NOT NULL"

\* The IsNull clause of a condition whose value is not Null.
C7_Witness ==
    /\ clause_out = Some("provider IS NULL")
    /\ condition[1].operator = "IsNull"
    /\ condition[1].value = IntegerValue(I(5))

\* A Like clause.
C7_LikeReached ==
    /\ clause_out = Some("provider ILIKE '%gpt%'")
    /\ condition[1].operator = "Like"

\* q is the ceiling of t / d, for d >= 1: (q - 1) * d < t <= q * d.
IsCeiling(q, t, d) ==
    /\ IntLeq(t, IntMul(q, d))
    /\ IntLess(IntMul(IntSub(q, I(1)), d), t)

PageNewOfValidCounts ==
    /\ last.op = "Page::new"
    /\ IntLeq(I(0), last.args[4])
    /\ IntLeq(I(1), last.args[3])

\* C8: for every i64 total_items >= 0 and per_page >= 1, Page::new returns a
\* Page whose total_pages is the ceiling of total_items / per_page, also near
\* the top of the i64 range.
C8_TotalPagesIsCeiling ==
    PageNewOfValidCounts =>
        /\ ~last.panic
        /\ IsCeiling(last.result[1].total_pages, last.args[4], last.args[3])

\* The same, for the counts whose sum total_items + per_page is an i64.
C8_TotalPagesIsCeilingWithoutOverflow ==
    (/\ PageNewOfValidCounts
     /\ InI64(IntAdd(last.args[4], last.args[3])))
    => /\ ~last.panic
       /\ IsCeiling(last.result[1].total_pages, last.args[4], last.args[3])

\* C9: no call of the data model raises an error: Page::new, Pagination::offset
\* and Pagination::limit return a result for every input, page < 1 and
\* per_page < 1 (per_page = 0 included).
C9_NeverPanics == ~last.panic

\* The same, for the builds without overflow checks.
C9_NeverPanicsWithoutOverflowChecks == ~overflow_checks => ~last.panic

\* C10: has_next is page < total_pages and has_previous is page > 1; next_page
\* returns page + 1 when has_next holds and nothing otherwise, previous_page
\* returns page - 1 when has_previous holds and nothing otherwise.
C10_Navigation ==
    page # None =>
        LET p == page[1]
            next == IntLess(p.page, p.total_pages)
            previous == IntLess(I(1), p.page)
        IN  /\ last.op = "has_next" => last.result = <<next>>
            /\ last.op = "has_previous" => last.result = <<previous>>
            /\ last.op = "next_page" =>
                  /\ ~last.panic
                  /\ last.result =
                        <<IF next THEN Some(IntAdd(p.page, I(1))) ELSE None>>
            /\ last.op = "previous_page" =>
                  /\ ~last.panic
                  /\ last.result =
                        <<IF previous THEN Some(IntSub(p.page, I(1))) ELSE None>>

\* Page 1 of 3, asked for its next page.
C10_Witness ==
    /\ page # None
    /\ page[1].page = I(1)
    /\ page[1].total_pages = I(3)
    /\ last.op = "next_page"
    /\ last.result = <<Some(I(2))>>

\* Page 1 of 1, asked for its next page; page 1 of 3, asked for its previous one.
C10_SinglePageReached ==
    /\ page # None
    /\ page[1].page = I(1)
    /\ page[1].total_pages = I(1)
    /\ last.op = "next_page"
    /\ last.result = <<None>>

C10_FirstPageReached ==
    /\ page # None
    /\ page[1].page = I(1)
    /\ page[1].total_pages = I(3)
    /\ last.op = "previous_page"
    /\ last.result = <<None>>

PaginationOfValidCounts ==
    /\ pagination # None
    /\ IntLeq(I(1), pagination[1].page)
    /\ IntLeq(I(1), pagination[1].per_page)

\* What the claim says of one Pagination p and the last call made on it.
OffsetAndLimit(p) ==
    /\ last.op = "limit" => last.result = <<p.per_page>>
    /\ last.op = "offset" =>
          /\ ~last.panic
          /\ last.result = <<IntMul(IntSub(p.page, I(1)), p.per_page)>>
          /\ IntLeq(I(0), last.result[1])
          /\ p.page = I(1) => last.result[1] = I(0)
          /\ IntLess(p.page, I64Max) =>
                LET following ==
                        Pagination_offset(Pagination_new(IntAdd(p.page, I(1)), p.per_page),
                                          overflow_checks)
                IN  /\ ~following.panic
                    /\ following.val = IntAdd(last.result[1], p.per_page)

\* C11: for every i64 page >= 1 and per_page >= 1, limit() is per_page and
\* offset() is (page - 1) * per_page, which is non-negative, is 0 for page 1,
\* and grows by limit() from one page to the following one.
C11_OffsetAndLimit ==
    PaginationOfValidCounts => OffsetAndLimit(pagination[1])

\* The same, for the pages whose product page * per_page is an i64.
C11_OffsetAndLimitWithoutOverflow ==
    (/\ PaginationOfValidCounts
     /\ InI64(IntMul(pagination[1].page, pagination[1].per_page)))
    => OffsetAndLimit(pagination[1])

\* Page 3 of 10 rows each: offset 20.
C11_SmallReached ==
    /\ pagination = Some(Pagination_new(I(3), I(10)))
    /\ last.op = "offset"
    /\ last.result = <<I(20)>>

\* Page 3 of i64::MAX rows each, without overflow checks: offset -2.
C11_WrappedReached ==
    /\ pagination = Some(Pagination_new(I(3), I64Max))
    /\ last.op = "offset"
    /\ last.result = <<I(-2)>>

\* The same call with overflow checks panics.
C11_PanicReached ==
    /\ pagination = Some(Pagination_new(I(3), I64Max))
    /\ last.op = "offset"
    /\ last.panic

\* The arguments of the first k recorded calls of builder op, in call order,
\* and the argument of the last of them.
RECURSIVE ArgsOf(_, _)
ArgsOf(op, k) ==
    IF k = 0 THEN <<>>
    ELSE LET rest == ArgsOf(op, k - 1)
         IN  IF calls[k].op = op THEN Append(rest, calls[k].arg) ELSE rest

LastArgOf(op) ==
    LET args == ArgsOf(op, Len(calls))
    IN  IF Len(args) = 0 THEN None ELSE Some(args[Len(args)])

\* C12: after any chain of builder calls on FilterCriteria::new(), conditions
\* is the with_condition arguments in call order, sort is the with_sort
\* arguments in call order, limit is the argument of the last with_limit call
\* and offset that of the last with_offset call, each absent if there was no
\* such call; so a call changes its own field and no other.
C12_FieldsFollowCalls ==
    /\ criteria.conditions = ArgsOf("with_condition", Len(calls))
    /\ criteria.sort = ArgsOf("with_sort", Len(calls))
    /\ criteria.limit = LastArgOf("with_limit")
    /\ criteria.offset = LastArgOf("with_offset")

\* Each recorded call leaves the three fields of the other builders as they were.
C12_EachCallKeepsTheOtherFields ==
    [][calls' # calls =>
          LET op == calls'[Len(calls')].op
          IN  /\ op # "with_condition" => criteria'.conditions = criteria.conditions
              /\ op # "with_sort" => criteria'.sort = criteria.sort
              /\ op # "with_limit" => criteria'.limit = criteria.limit
              /\ op # "with_offset" => criteria'.offset = criteria.offset]_vars

\* with_limit(10), a condition, with_limit(i64::MIN), a sort: the second limit
\* stands, beside the condition and the sort.
C12_Witness ==
    /\ Len(calls) = 4
    /\ calls[1] = [op |-> "with_limit", arg |-> I(10)]
    /\ calls[2].op = "with_condition"
    /\ calls[3] = [op |-> "with_limit", arg |-> I64Min]
    /\ calls[4].op = "with_sort"
    /\ criteria.limit = Some(I64Min)
    /\ Len(criteria.conditions) = 1
    /\ Len(criteria.sort) = 1
    /\ criteria.offset = None

\* A Page of valid counts being walked forwards from page 1, or backwards.
WalkOfValidCounts ==
    /\ page # None
    /\ IntLeq(I(0), page[1].total_items)
    /\ IntLeq(I(1), page[1].per_page)

WalkingForwards ==
    \/ last.op = "next_page"
    \/ last.op = "Page::new" /\ page[1].page = I(1)

WalkingBackwards ==
    \/ last.op = "previous_page"
    \/ last.op = "Page::new" /\ IntLeq(I(1), page[1].page)

WalkEnded ==
    /\ last.op \in {"next_page", "previous_page"}
    /\ last.result = <<None>>

\* What the claim says of the page a walk stands at.
WalkStandsRight(p) ==
    LET single == p.page = I(1) /\ p.total_pages \in {I(0), I(1)}
    IN  /\ WalkingForwards =>
              /\ IntLeq(I(1), p.page)
              /\ IntLeq(p.page, p.total_pages) \/ single
              /\ next_page(p, overflow_checks) = Ok(None)
                    <=> (p.page = p.total_pages \/ single)
              /\ last.op = "next_page" /\ last.result = <<None>>
                    => (p.page = p.total_pages \/ single)
        /\ WalkingBackwards =>
              /\ IntLeq(I(1), p.page)
              /\ previous_page(p, overflow_checks) = Ok(None) <=> p.page = I(1)
              /\ last.op = "previous_page" /\ last.result = <<None>> => p.page = I(1)

\* C13: for total_items >= 0 and per_page >= 1 the Page is built, and a walk
\* from page 1 along next_page stays within 1..total_pages and gets no next
\* page exactly at page = total_pages (or at page 1 when total_pages is 0 or
\* 1); a walk along previous_page from a page p >= 1 gets no previous page
\* exactly at page 1.
C13_WalkVisitsThePages ==
    /\ PageNewOfValidCounts => ~last.panic
    /\ WalkOfValidCounts => WalkStandsRight(page[1])

\* The same, for the counts whose sum total_items + per_page is an i64.
C13_WalkVisitsThePagesWithoutOverflow ==
    /\ (PageNewOfValidCounts /\ InI64(IntAdd(last.args[4], last.args[3])))
          => ~last.panic
    /\ (/\ WalkOfValidCounts
        /\ InI64(IntAdd(page[1].total_items, page[1].per_page)))
          => WalkStandsRight(page[1])

\* Each step of a walk moves one page up or one page down and keeps the counts.
C13_WalkStepsByOne ==
    [][(page # None /\ page' # None /\ page' # page) =>
          /\ page'[1].total_pages = page[1].total_pages
          /\ page'[1].per_page = page[1].per_page
          /\ page'[1].total_items = page[1].total_items
          /\ page'[1].items = page[1].items
          /\ last'.op = "next_page" => page'[1].page = IntAdd(page[1].page, I(1))
          /\ last'.op = "previous_page" => page'[1].page = IntSub(page[1].page, I(1))]_vars

\* Every walk of a Page that was built ends, unless it leaves the pages up to
\* MaxWalk.
C13_WalkTerminates ==
    (page # None /\ IntLeq(I(1), page[1].page))
        ~> (WalkEnded \/ (page # None /\ ~IntLeq(page[1].page, I(MaxWalk))))

\* A walk from page 1 of 7 that ended at page 7.
C13_ForwardsEndReached ==
    /\ page # None
    /\ page[1].total_items = I(20)
    /\ page[1].per_page = I(3)
    /\ page[1].page = I(7)
    /\ last.op = "next_page"
    /\ last.result = <<None>>

\* A walk from page 3 that ended at page 1.
C13_BackwardsEndReached ==
    /\ page # None
    /\ page[1].page = I(1)
    /\ page[1].total_pages = I(7)
    /\ last.op = "previous_page"
    /\ last.result = <<None>>

\* Without overflow checks, i64::MAX items, 2 to a page: the walk ends at page
\* 1 of -4611686018427387904.
C13_NegativeTotalReached ==
    /\ page # None
    /\ page[1].total_items = I64Max
    /\ page[1].per_page = I(2)
    /\ page[1].page = I(1)
    /\ IntLess(page[1].total_pages, I(0))
    /\ last.op = "next_page"
    /\ last.result = <<None>>

====
